---- MODULE Spec2Model ----
(***************************************************************************)
(* Model of the JobStore of meeting-bot (src/lib/JobStore.ts): bounded     *)
(* admission of jobs, the detached retry executor that runs each admitted  *)
(* task, and the shutdown flag.                                            *)
(*                                                                         *)
(* Node runs the store on one thread: a handler runs to its next await     *)
(* without interleaving, so each action below is one such run-to-await     *)
(* segment of the code.                                                    *)
(***************************************************************************)
EXTENDS Integers, Sequences, FiniteSets, Bags, TLC

(* ---------------------------- bounds ----------------------------------- *)
MaxExecs == 2            \* detached executions alive at the same time
MaxReuseExecs == 3       \* the same, where job ids are reused
MaxCapacity == 2         \* largest maxConcurrent given to the constructor
MaxInitRetry == 3        \* largest retryCount argument handed to addJob
MaxWanderSteps == 5      \* largest wanderingTime of the lobby wait, in seconds
MaxInflight == 2         \* interval callbacks awaiting the page at the same time
MaxChecks == 6           \* interval callbacks started by one poll
MaxSnapshotLen == 3      \* length of a caller's array of jobs
MaxEdits == 2            \* changes a caller makes to one array

MaxChecksNeeded == 2     \* largest checksNeeded of the silence monitor
MaxSilenceChecks == 4    \* audio-level checks started in one recording
MaxJoinCalls == 2        \* calls of join() on one bot

(* ----------------------- program constants ----------------------------- *)
BackoffUnitMs == 30000   \* sleep(retryCount * 30000)
GlobalCap == 3           \* if (retryCount < 3)
LobbyIntervalMs == 2000  \* setInterval(..., 2000) of waitAtLobbyPromise
NotifyIntervalMs == 1000 \* setInterval(..., 1000) of notifyPromise
StopWaitingMs == 5000    \* const stopWaiting = 5000

JobIds == {"A", "B", "C"}
Metadata == {"meta"}
(* Outcome of one invocation of the task body: it resolves, or it rejects  *)
(* with an error.  known = error instanceof KnownError; retryable and      *)
(* maxRetries are the two fields the executor reads from a KnownError.     *)
Ok == [kind |-> "ok", known |-> FALSE, retryable |-> FALSE, maxRetries |-> 0]
Unclassified == [kind |-> "error", known |-> FALSE, retryable |-> FALSE, maxRetries |-> 0]
NonRetryable(m) == [kind |-> "error", known |-> TRUE, retryable |-> FALSE, maxRetries |-> m]
Retryable(m) == [kind |-> "error", known |-> TRUE, retryable |-> TRUE, maxRetries |-> m]

(* class WaitingAtLobbyRetryError (module ../error): a KnownError whose     *)
(* third and fourth constructor arguments are retryable and maxRetries.    *)
WaitingAtLobbyRetryError(retryable, maxRetries) ==
    [kind |-> "error", known |-> TRUE, retryable |-> retryable, maxRetries |-> maxRetries]

(* the failure each bot's joinMeeting throws when the lobby wait ends      *)
(* without admission                                                       *)
ZoomLobbyFailure == WaitingAtLobbyRetryError(FALSE, 0)
TeamsLobbyFailure == WaitingAtLobbyRetryError(FALSE, 0)
LobbyFailures == {ZoomLobbyFailure, TeamsLobbyFailure}

DeclaredMaxRetries == -1..4
AllOutcomes ==
    {Ok, Unclassified} \cup {NonRetryable(m) : m \in {0, 3}}
                      \cup {Retryable(m) : m \in DeclaredMaxRetries}
StoreOutcomes == {Ok, Unclassified, NonRetryable(0), Retryable(1)}

VARIABLES
    jobs,               \* private jobs: Map<string, JobInfo>
    maxConcurrent,      \* private maxConcurrent
    shutdownRequested,  \* private shutdownRequested
    returned,           \* <<value>> returned by the latest addJob call, <<>> before it
    exec,               \* bag of the detached executions started by addJob
    collided,           \* an accepted addJob reused the id of a live execution
    waiter,             \* the promise of a waitForCompletion() call
    poll,               \* a ZoomBot promise settled by a timer pair
    snapshot,           \* the array a caller got from getActiveJobs()
    silence,            \* MicrosoftTeamsBot: the recording wait and its silence monitor
    nav,                \* ZoomBot.waitForLandingPageNav: its promise and interval
    join                \* one call of ZoomBot.join or MicrosoftTeamsBot.join

vars == <<jobs, maxConcurrent, shutdownRequested, returned, exec, collided, waiter, poll,
          snapshot, silence, nav, join>>
botVars == <<silence, nav, join>>

(* An execution is the promise chain addJob starts for an accepted job;    *)
(* it exists until its .finally has run.  Its pc:                          *)
(*   "running"  an invocation of task() is pending                         *)
(*   "backoff"  inside await sleep(retryCount * 30000)                     *)
(*   "resolved" executeTaskWithRetry resolved, .then/.finally not yet run  *)
(*   "rejected" executeTaskWithRetry threw, .catch/.finally not yet run    *)
(* retryCount is the executor's argument; invocations counts the calls of  *)
(* task(), hist lists their outcomes and waits the sleeps, in order.       *)
(* thrown is <<error>> once executeTaskWithRetry has thrown error.         *)
\* mutant: addJob starts the executor without handing on its retryCount
NewExecFromZero(jobId, retryCount) ==
    [pc |-> "running", jobId |-> jobId, retryCount |-> 0,
     initRetry |-> retryCount, invocations |-> 1, hist |-> <<>>, waits |-> <<>>,
     thrown |-> <<>>]

NewExec(jobId, retryCount) ==
    [pc |-> "running", jobId |-> jobId, retryCount |-> retryCount,
     initRetry |-> retryCount, invocations |-> 1, hist |-> <<>>, waits |-> <<>>,
     thrown |-> <<>>]

Execs == BagToSet(exec)

(* the executions that have not reached a terminal outcome: an invocation  *)
(* of task() is pending or a backoff sleep is                              *)
Unfinished == {e \in Execs : e.pc \in {"running", "backoff"}}
UnfinishedCount == BagCardinality([e \in Unfinished |-> exec[e]])
Replace(e, f) == (exec (-) SetToBag({e})) (+) SetToBag({f})

(* waiter.pc: "idle" waitForCompletion() not called, "polling" its promise *)
(* is pending with a checkCompletion timer armed, "resolved" the promise  *)
(* is resolved.  afterShutdown records shutdownRequested at the call.     *)
NoWaiter == [pc |-> "idle", afterShutdown |-> FALSE]

(* snapshot is the array a caller holds after getActiveJobs(): held says   *)
(* there is one, items are its elements, own says the array is an object   *)
(* of its own (not storage of the registry), edits counts the caller's     *)
(* changes to it.                                                          *)
NoSnapshot == [held |-> FALSE, own |-> TRUE, items |-> <<>>, edits |-> 0]

(* poll is one promise of ZoomBot that a setTimeout and a setInterval      *)
(* settle: site "lobby" is waitAtLobbyPromise, site "notify" is            *)
(* notifyPromise.  Times are in ms since the promise was created: now is   *)
(* the clock, timeoutMs the delay of the setTimeout, nextTick the time the *)
(* setInterval is due next.  inflight holds the numbers of the interval    *)
(* callbacks that await the page, started counts the callbacks begun.      *)
(* value is the value the promise resolved with ("undefined" for the       *)
(* Promise<void> of the notify site).  by, resolvedAt, everReady and       *)
(* startedAfter record how and when the promise resolved, whether a        *)
(* callback reached its resolve, and the callbacks begun after the         *)
(* resolution.  firstReady and readyAt are the number of the first         *)
(* callback that reached its resolve and the time it did (0: none yet);    *)
(* raised holds the numbers of the callbacks whose await threw.            *)
NoPoll ==
    [site |-> "none", pc |-> "idle", value |-> "none", by |-> "none",
     timeoutMs |-> 0, intervalMs |-> 0, now |-> 0, nextTick |-> 0,
     timeoutArmed |-> FALSE, intervalArmed |-> FALSE,
     inflight |-> {}, started |-> 0, foundAny |-> FALSE,
     resolvedAt |-> 0, everReady |-> FALSE, startedAfter |-> 0,
     firstReady |-> 0, readyAt |-> 0, raised |-> {}]

(* MicrosoftTeamsBot.recordMeetingPageWithFFmpeg from the start of the     *)
(* silence timer on.  pc: "off", "recording" (the wait loop runs), "ended" *)
(* (the wait loop was left).  meetingEnded, ffmpegFailed are the two flags *)
(* of the loop, elapsed whether Date.now() - startTime reached duration.   *)
(* startArmed: the setTimeout that calls monitorAudioSilence is scheduled; *)
(* intervalArmed: checkInterval is scheduled.  count is                    *)
(* consecutiveSilentChecks; inflight the callbacks awaiting execAsync;     *)
(* hist the outcomes of the completed checks in order of completion.       *)
(* bySilence: the monitor set meetingEnded; reachedAt: Len(hist) when it   *)
(* first did; late: a check was started after the wait loop was left.      *)
NoSilence ==
    [pc |-> "off", meetingEnded |-> FALSE, ffmpegFailed |-> FALSE, elapsed |-> FALSE,
     startArmed |-> FALSE, intervalArmed |-> FALSE,
     checksNeeded |-> 0, count |-> 0, inflight |-> 0, started |-> 0, hist |-> <<>>,
     bySilence |-> FALSE, reachedAt |-> 0, late |-> FALSE]

(* ZoomBot.waitForLandingPageNav.  attempt is the local counter; inflight  *)
(* the callbacks between their first await and their end; started the      *)
(* checks begun; present, absent, raised the completed checks by result;   *)
(* by names what resolved the promise; startedAfter counts the checks      *)
(* begun after the resolution.                                             *)
NoNav ==
    [pc |-> "idle", value |-> "none", by |-> "none", intervalArmed |-> FALSE,
     attempt |-> 0, inflight |-> 0, started |-> 0,
     present |-> 0, absent |-> 0, raised |-> 0, startedAfter |-> 0]

(* One bot's join(): _state is the local status array, reports the arrays  *)
(* handed to patchBotStatus in order, each with whether the PATCH          *)
(* succeeded; error is what the catch block caught; calls counts join().   *)
NoJoin ==
    [bot |-> "none", pc |-> "idle", state |-> <<>>, reports |-> <<>>,
     error |-> "none", calls |-> 0]

JobInfo(jobId, startedAt, metadata) ==
    [jobId |-> jobId, startedAt |-> startedAt, metadata |-> metadata]

(* ------------------------- introspection -------------------------------- *)
getActiveCount == Cardinality(DOMAIN jobs)
getMaxConcurrent == maxConcurrent
isFull == getActiveCount >= maxConcurrent
isBusy == getActiveCount >= maxConcurrent
isShutdownRequested == shutdownRequested

(* ------------------- conditions read off the code ----------------------- *)
\* mutants of the admission check: > for >=, no capacity test, no flag test
AdmissionRefusedOffByOne == getActiveCount > maxConcurrent \/ shutdownRequested
AdmissionRefusedNoCapacity == shutdownRequested
AdmissionRefusedNoFlag == getActiveCount >= maxConcurrent

\* addJob: if (this.jobs.size >= this.maxConcurrent || this.shutdownRequested)
AdmissionRefused == getActiveCount >= maxConcurrent \/ shutdownRequested

\* mutant: a non-retryable error is rethrown only if it declares a budget
NotRetryableWithBudget(error) == error.known /\ ~error.retryable /\ error.maxRetries > 0

\* mutant: the non-retryable test is missing
NotRetryableIgnored(error) == FALSE

\* if (error instanceof KnownError && !error.retryable) throw error
NotRetryable(error) == error.known /\ ~error.retryable

\* mutant: retryCount is compared without the + 1
TriesConsumedOffByOne(error, retryCount) ==
    error.known /\ error.retryable /\ retryCount >= error.maxRetries

\* mutant: a maxRetries that is not positive counts as no budget declared
TriesConsumedPositiveOnly(error, retryCount) ==
    /\ error.known /\ error.retryable
    /\ error.maxRetries > 0
    /\ (retryCount + 1) >= error.maxRetries

\* if (error instanceof KnownError && error.retryable
\*     && (retryCount + 1) >= error.maxRetries) throw error
TriesConsumed(error, retryCount) ==
    error.known /\ error.retryable /\ (retryCount + 1) >= error.maxRetries

\* mutant: constant instead of linear backoff
SleepMsConstant(retryCount) == BackoffUnitMs

\* await sleep(retryCount * 30000)
SleepMs(retryCount) == retryCount * BackoffUnitMs

\* mutant: the cap is tested against the count before its increment
RetryAgainOnceMore(retryCount) == retryCount - 1 < GlobalCap

\* if (retryCount < 3) recurse, else throw error
RetryAgain(retryCount) == retryCount < GlobalCap

\* mutant: the drain test compares with the capacity
DrainedBelowCapacity == getActiveCount < maxConcurrent

\* waitForCompletion / checkCompletion: if (this.jobs.size === 0)
Drained == getActiveCount = 0

\* mutant: delete that clears the map
MapDeleteAll(m, k) == <<>>

\* mutant: delete that removes nothing
MapDeleteNothing(m, k) == m

MapSet(m, k, v) == [x \in DOMAIN m \cup {k} |-> IF x = k THEN v ELSE m[x]]
MapDelete(m, k) == [x \in DOMAIN m \ {k} |-> m[x]]

(* ------------------------------ Init ------------------------------------ *)
Init ==
    /\ jobs = <<>>
    /\ maxConcurrent \in 1..MaxCapacity
    /\ shutdownRequested = FALSE
    /\ returned = <<>>
    /\ exec = EmptyBag
    /\ collided = FALSE
    /\ waiter = NoWaiter
    /\ poll = NoPoll
    /\ snapshot = NoSnapshot
    /\ silence = NoSilence
    /\ nav = NoNav
    /\ join = NoJoin

(* ----------------------------- actions ---------------------------------- *)
(* mutant of addJob: the entry is stored before the admission check        *)
AddJobInsertFirst(jobId, metadata, retryCount) ==
    /\ jobs' = MapSet(jobs, jobId, JobInfo(jobId, "now", metadata))
    /\ IF AdmissionRefused
       THEN /\ returned' = <<[accepted |-> FALSE]>>
            /\ UNCHANGED <<exec, collided>>
       ELSE /\ exec' = exec (+) SetToBag({NewExec(jobId, retryCount)})
            /\ returned' = <<[accepted |-> TRUE]>>
            /\ collided' = (collided \/ \E e \in Execs : e.jobId = jobId)
    /\ UNCHANGED botVars
    /\ UNCHANGED <<maxConcurrent, shutdownRequested, waiter, poll,
                 snapshot>>

(* mutant of addJob: a job added under a registered id replaces the        *)
(* execution that runs under that id                                       *)
AddJobReplacesRunning(jobId, metadata, retryCount) ==
    /\ IF AdmissionRefused
       THEN /\ returned' = <<[accepted |-> FALSE]>>
            /\ UNCHANGED <<jobs, exec, collided>>
       ELSE /\ jobs' = MapSet(jobs, jobId, JobInfo(jobId, "now", metadata))
            /\ exec' = [e \in {x \in Execs : x.jobId # jobId} |-> exec[e]]
                           (+) SetToBag({NewExec(jobId, retryCount)})
            /\ returned' = <<[accepted |-> TRUE]>>
            /\ collided' = (collided \/ \E e \in Execs : e.jobId = jobId)
    /\ UNCHANGED botVars
    /\ UNCHANGED <<maxConcurrent, shutdownRequested, waiter, poll,
                 snapshot>>

(* addJob(jobId, task, logger, metadata, retryCount): the check, the       *)
(* insertion, the start of executeTaskWithRetry up to its first await      *)
(* (which invokes task() once) and the return are one synchronous run.     *)
(* startedAt (new Date()) is read by nothing in the store and is kept as   *)
(* the constant "now".                                                     *)
AddJob(jobId, metadata, retryCount) ==
    /\ IF AdmissionRefused
       THEN /\ returned' = <<[accepted |-> FALSE]>>
            /\ UNCHANGED <<jobs, exec, collided>>
       ELSE /\ jobs' = MapSet(jobs, jobId, JobInfo(jobId, "now", metadata))
            /\ exec' = exec (+) SetToBag({NewExec(jobId, retryCount)})
            /\ returned' = <<[accepted |-> TRUE]>>
            /\ collided' = (collided \/ \E e \in Execs : e.jobId = jobId)
    /\ UNCHANGED botVars
    /\ UNCHANGED <<maxConcurrent, shutdownRequested, waiter, poll,
                 snapshot>>

(* mutant of the executor: a resolved task() falls through to the retry    *)
TaskResolvesFallsThrough(e) ==
    /\ e.pc = "running"
    /\ exec' = Replace(e, [e EXCEPT !.pc = "backoff",
                                    !.hist = Append(@, Ok),
                                    !.retryCount = @ + 1,
                                    !.waits = Append(@, SleepMs(e.retryCount + 1))])
    /\ UNCHANGED botVars
    /\ UNCHANGED <<jobs, maxConcurrent, shutdownRequested, returned, collided, waiter, poll,
                 snapshot>>

(* executeTaskWithRetry: await task() resolves; the async function returns *)
TaskResolves(e) ==
    /\ e.pc = "running"
    /\ exec' = Replace(e, [e EXCEPT !.pc = "resolved", !.hist = Append(@, Ok)])
    /\ UNCHANGED botVars
    /\ UNCHANGED <<jobs, maxConcurrent, shutdownRequested, returned, collided, waiter, poll,
                 snapshot>>

(* executeTaskWithRetry: await task() rejects with error; the catch block  *)
(* runs up to its await sleep(...) or to a throw.                          *)
TaskRejects(e, error) ==
    /\ e.pc = "running"
    /\ error.kind = "error"
    /\ IF NotRetryable(error) \/ TriesConsumed(error, e.retryCount)
       THEN exec' = Replace(e, [e EXCEPT !.pc = "rejected",
                                         !.hist = Append(@, error),
                                         !.thrown = <<error>>])
       ELSE exec' = Replace(e, [e EXCEPT !.pc = "backoff",
                                         !.hist = Append(@, error),
                                         !.retryCount = @ + 1,
                                         !.waits = Append(@, SleepMs(e.retryCount + 1))])
    /\ UNCHANGED botVars
    /\ UNCHANGED <<jobs, maxConcurrent, shutdownRequested, returned, collided, waiter, poll,
                 snapshot>>

(* mutant of the executor: no retry once shutdown is requested             *)
SleepEndsUnlessShutdown(e) ==
    /\ e.pc = "backoff"
    /\ IF RetryAgain(e.retryCount) /\ ~shutdownRequested
       THEN exec' = Replace(e, [e EXCEPT !.pc = "running", !.invocations = @ + 1])
       ELSE exec' = Replace(e, [e EXCEPT !.pc = "rejected",
                                         !.thrown = <<e.hist[Len(e.hist)]>>])
    /\ UNCHANGED botVars
    /\ UNCHANGED <<jobs, maxConcurrent, shutdownRequested, returned, collided, waiter, poll,
                 snapshot>>

(* executeTaskWithRetry: the sleep timer fires; either the recursive call  *)
(* invokes task() again or the caught error is thrown.                     *)
SleepEnds(e) ==
    /\ e.pc = "backoff"
    /\ IF RetryAgain(e.retryCount)
       THEN exec' = Replace(e, [e EXCEPT !.pc = "running", !.invocations = @ + 1])
       ELSE exec' = Replace(e, [e EXCEPT !.pc = "rejected",
                                         !.thrown = <<e.hist[Len(e.hist)]>>])
    /\ UNCHANGED botVars
    /\ UNCHANGED <<jobs, maxConcurrent, shutdownRequested, returned, collided, waiter, poll,
                 snapshot>>

(* mutant of the promise chain: the entry is deleted in .then only         *)
JobSettledThenOnly(e) ==
    /\ e.pc \in {"resolved", "rejected"}
    /\ jobs' = IF e.pc = "resolved" THEN MapDelete(jobs, e.jobId) ELSE jobs
    /\ exec' = exec (-) SetToBag({e})
    /\ UNCHANGED botVars
    /\ UNCHANGED <<maxConcurrent, shutdownRequested, returned, collided, waiter, poll,
                 snapshot>>

(* mutant of the promise chain: a failure overwrites the result of addJob  *)
JobSettledReportsFailure(e) ==
    /\ e.pc \in {"resolved", "rejected"}
    /\ jobs' = MapDelete(jobs, e.jobId)
    /\ exec' = exec (-) SetToBag({e})
    /\ returned' = IF e.pc = "rejected" THEN <<[accepted |-> FALSE]>> ELSE returned
    /\ UNCHANGED botVars
    /\ UNCHANGED <<maxConcurrent, shutdownRequested, collided, waiter, poll,
                 snapshot>>

(* mutant of the promise chain: the freed slot is given to the job of the  *)
(* latest refused call                                                     *)
JobSettledStartsNext(e) ==
    /\ e.pc \in {"resolved", "rejected"}
    /\ IF returned = <<[accepted |-> FALSE]>> /\ ~shutdownRequested
       THEN /\ jobs' = MapSet(MapDelete(jobs, e.jobId), "C", JobInfo("C", "now", "meta"))
            /\ exec' = (exec (-) SetToBag({e})) (+) SetToBag({NewExec("C", 0)})
       ELSE /\ jobs' = MapDelete(jobs, e.jobId)
            /\ exec' = exec (-) SetToBag({e})
    /\ UNCHANGED botVars
    /\ UNCHANGED <<maxConcurrent, shutdownRequested, returned, collided, waiter, poll,
                 snapshot>>

(* addJob's promise chain: .then / .catch log, .finally deletes the entry  *)
(* stored under jobId; the chain is over.                                  *)
JobSettled(e) ==
    /\ e.pc \in {"resolved", "rejected"}
    /\ jobs' = MapDelete(jobs, e.jobId)
    /\ exec' = exec (-) SetToBag({e})
    /\ UNCHANGED botVars
    /\ UNCHANGED <<maxConcurrent, shutdownRequested, returned, collided, waiter, poll,
                 snapshot>>

(* mutant of requestShutdown(): the flag is toggled                        *)
RequestShutdownToggles ==
    /\ shutdownRequested' = ~shutdownRequested
    /\ UNCHANGED botVars
    /\ UNCHANGED <<jobs, maxConcurrent, returned, exec, collided, waiter, poll,
                 snapshot>>

(* requestShutdown() *)
RequestShutdown ==
    /\ shutdownRequested' = TRUE
    /\ UNCHANGED botVars
    /\ UNCHANGED <<jobs, maxConcurrent, returned, exec, collided, waiter, poll,
                 snapshot>>

(* mutant of waitForCompletion(): it also stops admission                   *)
WaitForCompletionRequestsShutdown ==
    /\ waiter.pc = "idle"
    /\ waiter' = [pc |-> IF Drained THEN "resolved" ELSE "polling",
                  afterShutdown |-> shutdownRequested]
    /\ shutdownRequested' = TRUE
    /\ UNCHANGED botVars
    /\ UNCHANGED <<jobs, maxConcurrent, returned, exec, collided, poll,
                 snapshot>>

(* mutant of waitForCompletion(): it never polls                           *)
WaitForCompletionAtOnce ==
    /\ waiter.pc = "idle"
    /\ waiter' = [pc |-> "resolved", afterShutdown |-> shutdownRequested]
    /\ UNCHANGED botVars
    /\ UNCHANGED <<jobs, maxConcurrent, shutdownRequested, returned, exec, collided, poll,
                 snapshot>>

(* waitForCompletion(): returns at once on an empty registry; otherwise    *)
(* the first checkCompletion() runs inside the Promise executor, sees the  *)
(* same non-empty registry and arms the 1 s timer.                         *)
WaitForCompletion ==
    /\ waiter.pc = "idle"
    /\ waiter' = [pc |-> IF Drained THEN "resolved" ELSE "polling",
                  afterShutdown |-> shutdownRequested]
    /\ UNCHANGED botVars
    /\ UNCHANGED <<jobs, maxConcurrent, shutdownRequested, returned, exec, collided, poll,
                 snapshot>>

(* mutant of checkCompletion(): the timer is not armed again               *)
CheckCompletionOnce ==
    /\ waiter.pc = "polling"
    /\ waiter' = [waiter EXCEPT !.pc = IF Drained THEN "resolved" ELSE "abandoned"]
    /\ UNCHANGED botVars
    /\ UNCHANGED <<jobs, maxConcurrent, shutdownRequested, returned, exec, collided, poll,
                 snapshot>>

(* checkCompletion() run by its timer: resolve on an empty registry,       *)
(* otherwise arm the timer again.                                          *)
CheckCompletion ==
    /\ waiter.pc = "polling"
    /\ waiter' = IF Drained THEN [waiter EXCEPT !.pc = "resolved"] ELSE waiter
    /\ UNCHANGED botVars
    /\ UNCHANGED <<jobs, maxConcurrent, shutdownRequested, returned, exec, collided, poll,
                 snapshot>>

(* --------------------------- getActiveJobs ------------------------------ *)
(* the sequences that hold every value of the map m once; Array.from       *)
(* yields the one in insertion order, which jobs does not record           *)
ArraysFrom(m) ==
    {a \in [1..Cardinality(DOMAIN m) -> {m[k] : k \in DOMAIN m}] :
        \A k \in DOMAIN m : \E i \in DOMAIN a : a[i] = m[k]}

(* the map that an array of JobInfo holds, were it the registry's storage  *)
RegistryOf(a) ==
    [k \in {a[i].jobId : i \in DOMAIN a} |->
        a[CHOOSE i \in DOMAIN a : a[i].jobId = k /\ \A j \in DOMAIN a : a[j].jobId = k => j <= i]]

(* mutant: getActiveJobs hands out the registry's own storage *)
GetActiveJobsLive ==
    /\ \E a \in ArraysFrom(jobs) :
          snapshot' = [held |-> TRUE, own |-> FALSE, items |-> a, edits |-> 0]
    /\ UNCHANGED botVars
    /\ UNCHANGED <<jobs, maxConcurrent, shutdownRequested, returned, exec, collided, waiter, poll>>

(* getActiveJobs(): return Array.from(this.jobs.values()) *)
GetActiveJobs ==
    /\ \E a \in ArraysFrom(jobs) :
          snapshot' = [held |-> TRUE, own |-> TRUE, items |-> a, edits |-> 0]
    /\ UNCHANGED botVars
    /\ UNCHANGED <<jobs, maxConcurrent, shutdownRequested, returned, exec, collided, waiter, poll>>

(* the caller changes its array to a: the registry follows only if the     *)
(* array is the registry's storage                                         *)
EditSnapshot(a) ==
    /\ snapshot.held
    /\ snapshot.edits < MaxEdits
    /\ snapshot' = [snapshot EXCEPT !.items = a, !.edits = @ + 1]
    /\ jobs' = IF snapshot.own THEN jobs ELSE RegistryOf(a)
    /\ UNCHANGED botVars
    /\ UNCHANGED <<maxConcurrent, shutdownRequested, returned, exec, collided, waiter, poll>>

ForeignJobs == {JobInfo("Z", "now", "meta")}

(* array.push(item), array.pop(), array[i] = item *)
SnapshotPush(item) ==
    /\ Len(snapshot.items) < MaxSnapshotLen
    /\ EditSnapshot(Append(snapshot.items, item))

SnapshotPop ==
    /\ snapshot.items # <<>>
    /\ EditSnapshot(SubSeq(snapshot.items, 1, Len(snapshot.items) - 1))

SnapshotReplace(i, item) ==
    /\ i \in DOMAIN snapshot.items
    /\ snapshot.items[i] # item
    /\ EditSnapshot([snapshot.items EXCEPT ![i] = item])

(* --------------------- ZoomBot: timer-pair promises --------------------- *)
storeVars == <<jobs, maxConcurrent, shutdownRequested, returned, exec, collided, waiter,
               snapshot>>

WanderingTimes == {k * 1000 : k \in 1..MaxWanderSteps}

(* mutant: the first callback runs when the promise is created *)
StartPollChecksAtOnce(site, timeoutMs, intervalMs) ==
    /\ poll.pc = "idle"
    /\ poll' = [NoPoll EXCEPT !.site = site, !.pc = "pending",
                              !.timeoutMs = timeoutMs, !.intervalMs = intervalMs,
                              !.nextTick = intervalMs,
                              !.started = 1, !.inflight = {1},
                              !.timeoutArmed = TRUE, !.intervalArmed = TRUE]
    /\ UNCHANGED botVars
    /\ UNCHANGED storeVars

(* new Promise(...): setTimeout(..., timeoutMs) and setInterval(..., intervalMs) *)
StartPoll(site, timeoutMs, intervalMs) ==
    /\ poll.pc = "idle"
    /\ poll' = [NoPoll EXCEPT !.site = site, !.pc = "pending",
                              !.timeoutMs = timeoutMs, !.intervalMs = intervalMs,
                              !.nextTick = intervalMs,
                              !.timeoutArmed = TRUE, !.intervalArmed = TRUE]
    /\ UNCHANGED botVars
    /\ UNCHANGED storeVars

waitAtLobbyPromise(wanderingTime) == StartPoll("lobby", wanderingTime, LobbyIntervalMs)

dismissDeviceNotifications == StartPoll("notify", StopWaitingMs, NotifyIntervalMs)

(* mutant: every call of the resolve function settles the promise anew *)
ResolveAgain(p, v, by) ==
    [p EXCEPT !.pc = "resolved", !.value = v, !.by = by, !.resolvedAt = p.now]

(* resolveMe(v) / resolve(): settles the promise the first time only       *)
Resolve(p, v, by) ==
    IF p.pc = "pending"
    THEN [p EXCEPT !.pc = "resolved", !.value = v, !.by = by, !.resolvedAt = p.now]
    ELSE p

(* what the timeout callback resolves with *)
TimeoutValue(site) == IF site = "lobby" THEN "false" ELSE "undefined"

(* what a callback that found the condition resolves with *)
ReadyValue(site) == IF site = "lobby" THEN "true" ELSE "undefined"

(* the earliest time an armed timer is due *)
DueTimes(p) ==
    (IF p.timeoutArmed THEN {p.timeoutMs} ELSE {})
        \cup (IF p.intervalArmed THEN {p.nextTick} ELSE {})

NextDue(p) == CHOOSE t \in DueTimes(p) : \A u \in DueTimes(p) : t <= u

(* the clock moves to the next due timer; a due timer runs before it moves *)
Advance ==
    /\ DueTimes(poll) # {}
    /\ NextDue(poll) > poll.now
    /\ poll' = [poll EXCEPT !.now = NextDue(poll)]
    /\ UNCHANGED botVars
    /\ UNCHANGED storeVars

(* mutant: the timeout callback resolves and leaves the interval running *)
TimeoutFiresKeepsInterval ==
    /\ poll.timeoutArmed
    /\ poll.now >= poll.timeoutMs
    /\ poll' = Resolve([poll EXCEPT !.timeoutArmed = FALSE],
                       TimeoutValue(poll.site), "timeout")
    /\ UNCHANGED botVars
    /\ UNCHANGED storeVars

(* the setTimeout callback: clearInterval, resolve *)
TimeoutFires ==
    /\ poll.timeoutArmed
    /\ poll.now >= poll.timeoutMs
    /\ poll' = Resolve([poll EXCEPT !.timeoutArmed = FALSE, !.intervalArmed = FALSE],
                       TimeoutValue(poll.site), "timeout")
    /\ UNCHANGED botVars
    /\ UNCHANGED storeVars

(* the setInterval timer runs its async callback up to the first await *)
IntervalFires ==
    /\ poll.intervalArmed
    /\ poll.now >= poll.nextTick
    /\ Cardinality(poll.inflight) < MaxInflight
    /\ poll.started < MaxChecks
    /\ poll' = [poll EXCEPT !.started = @ + 1,
                            !.inflight = @ \cup {poll.started + 1},
                            !.nextTick = @ + poll.intervalMs,
                            !.startedAfter = IF poll.pc = "resolved" THEN @ + 1 ELSE @]
    /\ UNCHANGED botVars
    /\ UNCHANGED storeVars

(* mutant: a callback resolves the promise and clears no timer *)
ResolveByCheckKeepsTimers(p, i) ==
    Resolve([p EXCEPT !.everReady = TRUE,
                      !.firstReady = IF @ = 0 THEN i ELSE @,
                      !.readyAt = IF p.firstReady = 0 THEN p.now ELSE @],
            ReadyValue(p.site), "check")

(* callback i found the condition: clearInterval, clearTimeout, resolve *)
ResolveByCheck(p, i) ==
    Resolve([p EXCEPT !.timeoutArmed = FALSE, !.intervalArmed = FALSE,
                      !.everReady = TRUE,
                      !.firstReady = IF @ = 0 THEN i ELSE @,
                      !.readyAt = IF p.firstReady = 0 THEN p.now ELSE @],
            ReadyValue(p.site), "check")

(* mutant: the catch block gives the poll up *)
SwallowGivesUp(p, i) ==
    Resolve([p EXCEPT !.raised = @ \cup {i},
                      !.timeoutArmed = FALSE, !.intervalArmed = FALSE],
            TimeoutValue(p.site), "check")

(* callback i threw inside its try block: the catch swallows it *)
Swallow(p, i) == [p EXCEPT !.raised = @ \cup {i}]

LobbyOutcomes == {"waiting", "admitted", "throws"}

(* callback i of waitAtLobbyPromise resumes with the footer text: still    *)
(* waiting on the host, admitted to the meeting, or the page threw         *)
LobbyCheck(i, outcome) ==
    /\ poll.site = "lobby"
    /\ i \in poll.inflight
    /\ LET p == [poll EXCEPT !.inflight = @ \ {i}]
       IN  poll' = CASE outcome = "admitted" -> ResolveByCheck(p, i)
                     [] outcome = "throws" -> Swallow(p, i)
                     [] OTHER -> p
    /\ UNCHANGED botVars
    /\ UNCHANGED storeVars

NotifyOutcomes == {"buttons", "clickThrows", "none", "throws"}

(* callback i of notifyPromise resumes with the close buttons: some found  *)
(* and clicked, some found and a click threw, none found, or the query     *)
(* for the buttons threw                                                   *)
NotifyCheck(i, outcome) ==
    /\ poll.site = "notify"
    /\ i \in poll.inflight
    /\ LET p == [poll EXCEPT !.inflight = @ \ {i}]
       IN  poll' = CASE outcome = "buttons" -> [p EXCEPT !.foundAny = TRUE]
                     [] outcome = "clickThrows" -> Swallow([p EXCEPT !.foundAny = TRUE], i)
                     [] outcome = "none" /\ p.foundAny -> ResolveByCheck(p, i)
                     [] outcome = "throws" -> Swallow(p, i)
                     [] OTHER -> p
    /\ UNCHANGED botVars
    /\ UNCHANGED storeVars

(* ------------- MicrosoftTeamsBot: sustained-silence detection ----------- *)
SilenceThreshold == 200
CheckIntervalMs == 5000

(* config.inactivityLimit * 60 * 1000, over limits that are and are not a  *)
(* multiple of the check interval                                          *)
InactivityLimitsMs ==
    {CheckIntervalMs * k : k \in 1..MaxChecksNeeded}
        \cup {CheckIntervalMs * k - 4000 : k \in 1..MaxChecksNeeded}

\* Math.ceil(inactivityLimitMs / 1000 / checkIntervalSeconds)
ChecksNeeded(inactivityLimitMs) ==
    (inactivityLimitMs + CheckIntervalMs - 1) \div CheckIntervalMs

(* What one audio-level check ends with: the pipeline prints a number, it  *)
(* prints nothing, or execAsync rejects.                                   *)
AudioOutcomes ==
    {[kind |-> "stdout", peak |-> 199], [kind |-> "stdout", peak |-> 200],
     [kind |-> "empty", peak |-> 0], [kind |-> "throws", peak |-> 0]}

\* parseInt(stdout.trim()) || 0
peakLevel(outcome) == IF outcome.kind = "stdout" THEN outcome.peak ELSE 0

(* consecutiveSilentChecks as the callbacks leave it after the completed   *)
(* checks hist: a silent check adds one, a loud one zeroes it, a check     *)
(* that threw leaves it.                                                   *)
RECURSIVE SilentRun(_)
SilentRun(hist) ==
    IF hist = <<>> THEN 0
    ELSE LET last == hist[Len(hist)]
             front == SubSeq(hist, 1, Len(hist) - 1)
         IN  IF last.kind = "throws" THEN SilentRun(front)
             ELSE IF peakLevel(last) < SilenceThreshold THEN SilentRun(front) + 1
             ELSE 0

otherVarsOfSilence == <<storeVars, poll, nav, join>>

(* setTimeout(() => monitorAudioSilence(), ...) is scheduled and the wait  *)
(* loop is entered.                                                        *)
recordMeetingPageWithFFmpeg(inactivityLimitMs) ==
    /\ silence.pc = "off"
    /\ silence' = [NoSilence EXCEPT !.pc = "recording", !.startArmed = TRUE,
                                    !.checksNeeded = ChecksNeeded(inactivityLimitMs)]
    /\ UNCHANGED otherVarsOfSilence

(* the delayed timer fires: monitorAudioSilence() zeroes the counter and   *)
(* schedules checkInterval                                                 *)
monitorAudioSilence ==
    /\ silence.startArmed
    /\ silence' = [silence EXCEPT !.startArmed = FALSE, !.intervalArmed = TRUE,
                                  !.count = 0]
    /\ UNCHANGED otherVarsOfSilence

(* checkInterval fires: the async callback runs up to await execAsync(...) *)
AudioCheckStarts ==
    /\ silence.intervalArmed
    /\ silence.inflight < MaxInflight
    /\ silence.started < MaxSilenceChecks
    /\ silence' = [silence EXCEPT !.inflight = @ + 1, !.started = @ + 1,
                                  !.late = @ \/ silence.pc = "ended"]
    /\ UNCHANGED otherVarsOfSilence

(* mutant of the callback: a check that errors resets the counter          *)
AudioCheckEndsErrorResets(outcome) ==
    /\ silence.inflight > 0
    /\ LET done == [silence EXCEPT !.inflight = @ - 1, !.hist = Append(@, outcome)]
       IN  IF outcome.kind # "throws" /\ peakLevel(outcome) < SilenceThreshold
           THEN IF silence.count + 1 >= silence.checksNeeded
                THEN silence' = [done EXCEPT !.count = @ + 1,
                                             !.intervalArmed = FALSE,
                                             !.meetingEnded = TRUE,
                                             !.bySilence = TRUE,
                                             !.reachedAt = IF silence.bySilence THEN @
                                                           ELSE Len(done.hist)]
                ELSE silence' = [done EXCEPT !.count = @ + 1]
           ELSE silence' = [done EXCEPT !.count = 0]
    /\ UNCHANGED otherVarsOfSilence

(* await execAsync(...) settles and the callback runs to its end           *)
AudioCheckEnds(outcome) ==
    /\ silence.inflight > 0
    /\ LET done == [silence EXCEPT !.inflight = @ - 1, !.hist = Append(@, outcome)]
       IN  IF outcome.kind = "throws"
           THEN silence' = done
           ELSE IF peakLevel(outcome) < SilenceThreshold
           THEN IF silence.count + 1 >= silence.checksNeeded
                THEN silence' = [done EXCEPT !.count = @ + 1,
                                             !.intervalArmed = FALSE,
                                             !.meetingEnded = TRUE,
                                             !.bySilence = TRUE,
                                             !.reachedAt = IF silence.bySilence THEN @
                                                           ELSE Len(done.hist)]
                ELSE silence' = [done EXCEPT !.count = @ + 1]
           ELSE silence' = [done EXCEPT !.count = 0]
    /\ UNCHANGED otherVarsOfSilence

(* the page calls the exposed function screenAppMeetEnd                    *)
screenAppMeetEnd ==
    /\ silence.pc = "recording"
    /\ ~silence.meetingEnded
    /\ silence' = [silence EXCEPT !.meetingEnded = TRUE]
    /\ UNCHANGED otherVarsOfSilence

(* recorder.onProcessExit with a non-zero exit code                        *)
onProcessExit ==
    /\ silence.pc = "recording"
    /\ ~silence.ffmpegFailed
    /\ silence' = [silence EXCEPT !.ffmpegFailed = TRUE]
    /\ UNCHANGED otherVarsOfSilence

(* the wait loop tests its condition and leaves; elapsed is whether        *)
(* Date.now() - startTime has reached duration                             *)
RecordingWaitEnds(elapsed) ==
    /\ silence.pc = "recording"
    /\ silence.meetingEnded \/ silence.ffmpegFailed \/ elapsed
    /\ silence' = [silence EXCEPT !.pc = "ended", !.elapsed = elapsed]
    /\ UNCHANGED otherVarsOfSilence

(* ------------------- ZoomBot: waitForLandingPageNav ---------------------- *)
maxAttempts == 4

(* What one check ends with: count() > 0, count() = 0, a throw whose name  *)
(* is TimeoutError, any other throw.                                       *)
NavOutcomes == {"present", "absent", "timeoutError", "throws"}

otherVarsOfNav == <<storeVars, poll, silence, join>>

\* resolve(v): settles the promise if it is pending, else does nothing
NavResolve(n, v, by) ==
    IF n.pc = "pending" THEN [n EXCEPT !.pc = "resolved", !.value = v, !.by = by] ELSE n

(* new Promise(...): attempt = 0 and setInterval(..., 1500)                *)
waitForLandingPageNav ==
    /\ nav.pc = "idle"
    /\ nav' = [NoNav EXCEPT !.pc = "pending", !.intervalArmed = TRUE]
    /\ UNCHANGED otherVarsOfNav

(* the interval fires: the callback gives up if attempt >= maxAttempts,    *)
(* else it runs up to its first await                                      *)
NavIntervalFires ==
    /\ nav.intervalArmed
    /\ IF nav.attempt >= maxAttempts
       THEN nav' = NavResolve([nav EXCEPT !.intervalArmed = FALSE], "false", "attempts")
       ELSE /\ nav.inflight < MaxInflight
            /\ nav' = [nav EXCEPT !.inflight = @ + 1, !.started = @ + 1,
                                  !.startedAfter = IF nav.pc = "resolved"
                                                   THEN @ + 1 ELSE @]
    /\ UNCHANGED otherVarsOfNav

(* mutant of the callback: finding the link absent leaves the interval on  *)
NavCheckEndsKeepsInterval(outcome) ==
    /\ nav.inflight > 0
    /\ LET done == [nav EXCEPT !.inflight = @ - 1]
       IN  nav' =
             CASE outcome = "present" ->
                    [done EXCEPT !.attempt = @ + 1, !.present = @ + 1]
               [] outcome = "absent" ->
                    NavResolve([done EXCEPT !.attempt = @ + 1, !.absent = @ + 1],
                               "true", "absent")
               [] outcome = "timeoutError" ->
                    NavResolve([done EXCEPT !.intervalArmed = FALSE, !.raised = @ + 1],
                               "true", "timeoutError")
               [] outcome = "throws" ->
                    IF done.attempt >= maxAttempts
                    THEN NavResolve([done EXCEPT !.intervalArmed = FALSE,
                                                 !.attempt = @ + 1, !.raised = @ + 1],
                                    "false", "error")
                    ELSE [done EXCEPT !.attempt = @ + 1, !.raised = @ + 1]
    /\ UNCHANGED otherVarsOfNav

(* the awaits of one callback settle and it runs to its end; attempt += 1  *)
(* is skipped only by the return in the TimeoutError branch                *)
NavCheckEnds(outcome) ==
    /\ nav.inflight > 0
    /\ LET done == [nav EXCEPT !.inflight = @ - 1]
       IN  nav' =
             CASE outcome = "present" ->
                    [done EXCEPT !.attempt = @ + 1, !.present = @ + 1]
               [] outcome = "absent" ->
                    NavResolve([done EXCEPT !.intervalArmed = FALSE,
                                            !.attempt = @ + 1, !.absent = @ + 1],
                               "true", "absent")
               [] outcome = "timeoutError" ->
                    NavResolve([done EXCEPT !.intervalArmed = FALSE, !.raised = @ + 1],
                               "true", "timeoutError")
               [] outcome = "throws" ->
                    IF done.attempt >= maxAttempts
                    THEN NavResolve([done EXCEPT !.intervalArmed = FALSE,
                                                 !.attempt = @ + 1, !.raised = @ + 1],
                                    "false", "error")
                    ELSE [done EXCEPT !.attempt = @ + 1, !.raised = @ + 1]
    /\ UNCHANGED otherVarsOfNav

(* ---------------- ZoomBot.join and MicrosoftTeamsBot.join ---------------- *)
Bots == {"zoom", "microsoft"}

(* What the catch block of join can catch before the recording is over:    *)
(* the lobby failure thrown by joinMeeting, or anything else.              *)
JoinErrors == {"lobby", "other"}

(* uploader.uploadRecordingToRemoteStorage(): its result, or a rejection   *)
UploadResults == {"true", "false", "throws"}

otherVarsOfJoin == <<storeVars, poll, silence, nav>>

\* _state.includes(st)
Includes(state, st) == \E i \in DOMAIN state : state[i] = st

\* _state.indexOf(st), for a status that is in the array
IndexOf(state, st) == CHOOSE i \in DOMAIN state :
                          state[i] = st /\ \A j \in 1..(i - 1) : state[j] # st

\* _state.splice(index, 1, st)
Splice(state, index, st) == [state EXCEPT ![index] = st]

(* patchBotStatus({..., status: _state, ...}): the array as it is at the   *)
(* call; success is what the function returns (false when the PATCH        *)
(* failed, it never throws)                                                *)
patchBotStatus(j, success) ==
    [j EXCEPT !.reports = Append(@, [status |-> j.state, success |-> success])]

(* join(): const _state = ['processing'] and the call of joinMeeting       *)
Join(bot) ==
    /\ join.pc \in {"idle", "returned", "threw"}
    /\ join.calls < MaxJoinCalls
    /\ join' = [NoJoin EXCEPT !.bot = bot, !.pc = "joinMeeting",
                              !.state = <<"processing">>, !.calls = join.calls + 1]
    /\ UNCHANGED otherVarsOfJoin

(* joinMeeting throws before pushState('joined')                           *)
JoinMeetingThrows(error) ==
    /\ join.pc = "joinMeeting"
    /\ join' = [join EXCEPT !.pc = "catch", !.error = error]
    /\ UNCHANGED otherVarsOfJoin

(* joinMeeting: pushState('joined'), then the recording starts             *)
PushJoined ==
    /\ join.pc = "joinMeeting"
    /\ join' = [join EXCEPT !.pc = "recording", !.state = Append(@, "joined")]
    /\ UNCHANGED otherVarsOfJoin

(* the recording (recordMeetingPage, recordMeetingPageWithFFmpeg) throws   *)
RecordingThrows ==
    /\ join.pc = "recording"
    /\ join' = [join EXCEPT !.pc = "catch", !.error = "other"]
    /\ UNCHANGED otherVarsOfJoin

(* the recording returns: pushState('finished') and joinMeeting resolves;  *)
(* ZoomBot.join reports the status before the upload                       *)
PushFinished(success) ==
    /\ join.pc = "recording"
    /\ LET done == [join EXCEPT !.pc = "upload", !.state = Append(@, "finished")]
       IN  join' = IF join.bot = "zoom" THEN patchBotStatus(done, success) ELSE done
    /\ UNCHANGED otherVarsOfJoin

(* await handleUpload() settles and the try block runs to its end or to    *)
(* its throw                                                               *)
HandleUpload(uploadResult, success) ==
    /\ join.pc = "upload"
    /\ join' =
         IF uploadResult = "throws"
         THEN [join EXCEPT !.pc = "catch", !.error = "other"]
         ELSE IF join.bot = "zoom"
         THEN [join EXCEPT !.pc = "returned"]
         ELSE IF Includes(join.state, "finished") /\ uploadResult = "false"
         THEN patchBotStatus(
                  [join EXCEPT !.pc = "catch", !.error = "upload",
                               !.state = Splice(@, IndexOf(@, "finished"), "failed")],
                  success)
         ELSE patchBotStatus([join EXCEPT !.pc = "returned"], success)
    /\ UNCHANGED otherVarsOfJoin

(* the catch block: 'failed' is pushed unless 'finished' is in the array,  *)
(* the status is reported and the error is thrown again                    *)
CatchBlock(success) ==
    /\ join.pc = "catch"
    /\ join' = patchBotStatus(
                   [join EXCEPT !.pc = "threw",
                                !.state = IF Includes(@, "finished") THEN @
                                          ELSE Append(@, "failed")],
                   success)
    /\ UNCHANGED otherVarsOfJoin

(* ------------------------- specifications ------------------------------- *)
(* The store under concurrent jobs: addJob with its default retryCount.    *)
(* An addJob call that would start an execution beyond MaxExecs is left    *)
(* out; refused calls are always in.                                       *)
Next ==
    \/ /\ BagCardinality(exec) < MaxExecs \/ AdmissionRefused
       /\ \E jobId \in JobIds, metadata \in Metadata : AddJob(jobId, metadata, 0)
    \/ \E e \in Execs : TaskResolves(e)
    \/ \E e \in Execs, error \in StoreOutcomes : TaskRejects(e, error)
    \/ \E e \in Execs : SleepEnds(e)
    \/ \E e \in Execs : JobSettled(e)
    \/ RequestShutdown
    \/ WaitForCompletion
    \/ CheckCompletion

Spec == Init /\ [][Next]_vars

(* The retry executor on one job, over every error classification and     *)
(* every initial retryCount.                                               *)
NextRetry ==
    \/ /\ exec = EmptyBag
       /\ \E jobId \in JobIds, metadata \in Metadata, retryCount \in 0..MaxInitRetry :
              AddJob(jobId, metadata, retryCount)
    \/ \E e \in Execs : TaskResolves(e)
    \/ \E e \in Execs, error \in AllOutcomes : TaskRejects(e, error)
    \/ \E e \in Execs : SleepEnds(e)
    \/ \E e \in Execs : JobSettled(e)

SpecRetry == Init /\ [][NextRetry]_vars

(* The store under callers that reuse the id of a registered job: up to    *)
(* MaxReuseExecs executions, no shutdown.                                  *)
NextReuse ==
    \/ /\ BagCardinality(exec) < MaxReuseExecs \/ AdmissionRefused
       /\ \E jobId \in JobIds, metadata \in Metadata : AddJob(jobId, metadata, 0)
    \/ \E e \in Execs : TaskResolves(e)
    \/ \E e \in Execs, error \in StoreOutcomes : TaskRejects(e, error)
    \/ \E e \in Execs : SleepEnds(e)
    \/ \E e \in Execs : JobSettled(e)

SpecReuse == Init /\ [][NextReuse]_vars

(* The store with a caller that takes getActiveJobs() arrays and changes   *)
(* them while jobs come and go.                                            *)
NextSnapshot ==
    \/ /\ BagCardinality(exec) < MaxExecs \/ AdmissionRefused
       /\ \E jobId \in JobIds, metadata \in Metadata : AddJob(jobId, metadata, 0)
    \/ \E e \in Execs : TaskResolves(e)
    \/ \E e \in Execs : JobSettled(e)
    \/ GetActiveJobs
    \/ \E item \in ForeignJobs : SnapshotPush(item)
    \/ SnapshotPop
    \/ \E i \in DOMAIN snapshot.items, item \in ForeignJobs : SnapshotReplace(i, item)

SpecSnapshot == Init /\ [][NextSnapshot]_vars

(* The store when every pending task() settles and every armed timer and   *)
(* every settled promise's reaction runs.                                  *)
TaskSettles ==
    \E e \in Execs : TaskResolves(e) \/ \E error \in StoreOutcomes : TaskRejects(e, error)

FairSpec ==
    /\ Spec
    /\ WF_vars(TaskSettles)
    /\ WF_vars(\E e \in Execs : SleepEnds(e))
    /\ WF_vars(\E e \in Execs : JobSettled(e))
    /\ WF_vars(CheckCompletion)

(* One timer-pair promise of ZoomBot, over both call sites, every timeout  *)
(* of the lobby wait and every result and timing of the callbacks.         *)
NextPoll ==
    \/ \E wanderingTime \in WanderingTimes : waitAtLobbyPromise(wanderingTime)
    \/ dismissDeviceNotifications
    \/ Advance
    \/ TimeoutFires
    \/ IntervalFires
    \/ \E i \in poll.inflight, outcome \in LobbyOutcomes : LobbyCheck(i, outcome)
    \/ \E i \in poll.inflight, outcome \in NotifyOutcomes : NotifyCheck(i, outcome)

SpecPoll == Init /\ [][NextPoll]_vars

(* One recording of MicrosoftTeamsBot with its silence monitor, over every *)
(* order of the timers, the end signals and the audio checks.              *)
NextSilence ==
    \/ \E inactivityLimitMs \in InactivityLimitsMs :
           recordMeetingPageWithFFmpeg(inactivityLimitMs)
    \/ monitorAudioSilence
    \/ AudioCheckStarts
    \/ \E outcome \in AudioOutcomes : AudioCheckEnds(outcome)
    \/ screenAppMeetEnd
    \/ onProcessExit
    \/ \E elapsed \in BOOLEAN : RecordingWaitEnds(elapsed)

SpecSilence == Init /\ [][NextSilence]_vars

(* One call of ZoomBot.waitForLandingPageNav, over every result of the     *)
(* checks and every order of ticks and check completions.                  *)
NextNav ==
    \/ waitForLandingPageNav
    \/ NavIntervalFires
    \/ \E outcome \in NavOutcomes : NavCheckEnds(outcome)

SpecNav == Init /\ [][NextNav]_vars

(* The same when the call is made, the interval keeps firing while it is   *)
(* scheduled and every check completes.                                    *)
FairNav ==
    /\ SpecNav
    /\ WF_vars(waitForLandingPageNav)
    /\ WF_vars(NavIntervalFires)
    /\ WF_vars(\E outcome \in NavOutcomes : NavCheckEnds(outcome))

(* Calls of join() on either bot, over every place the call can fail, every *)
(* upload result and every result of the status reports.                   *)
NextJoin ==
    \/ \E bot \in Bots : Join(bot)
    \/ \E error \in JoinErrors : JoinMeetingThrows(error)
    \/ PushJoined
    \/ RecordingThrows
    \/ \E success \in BOOLEAN : PushFinished(success)
    \/ \E uploadResult \in UploadResults, success \in BOOLEAN :
           HandleUpload(uploadResult, success)
    \/ \E success \in BOOLEAN : CatchBlock(success)

SpecJoin == Init /\ [][NextJoin]_vars

TypeOK ==
    /\ maxConcurrent \in 1..MaxCapacity
    /\ shutdownRequested \in BOOLEAN
    /\ returned \in {<<>>, <<[accepted |-> TRUE]>>, <<[accepted |-> FALSE]>>}
    /\ DOMAIN jobs \subseteq JobIds
    /\ collided \in BOOLEAN
    /\ BagCardinality(exec) <= MaxExecs
    /\ waiter \in [pc : {"idle", "polling", "resolved"}, afterShutdown : BOOLEAN]

Accepted == <<[accepted |-> TRUE]>>
Refused == <<[accepted |-> FALSE]>>
Min(a, b) == IF a <= b THEN a ELSE b
AllOf(hist, error) == hist # <<>> /\ \A i \in 1..Len(hist) : hist[i] = error

(* ======================================================================= *)
(* Claims                                                                  *)
(* ======================================================================= *)

(* C1: in every reachable state, under any interleaving of addJob calls,   *)
(* task successes and failures, retries, backoff waits and requestShutdown,*)
(* the number of registry entries never exceeds maxConcurrent.             *)
C1_SizeWithinCapacity == getActiveCount <= maxConcurrent

(* the registry is full at the largest capacity, one job is in a backoff   *)
(* wait, and a further addJob has just been refused                        *)
C1_Witness ==
    /\ maxConcurrent = MaxCapacity
    /\ getActiveCount = maxConcurrent
    /\ returned = Refused
    /\ ~shutdownRequested
    /\ \E e \in Execs : e.pc = "backoff"

(* C2: with no shutdown requested, an addJob call whose id is not          *)
(* registered is accepted and raises getActiveCount by one while fewer     *)
(* than maxConcurrent jobs are registered, and is refused once             *)
(* maxConcurrent are; so N calls with distinct ids from the empty registry *)
(* are all accepted, leave getActiveCount = N, and the next is refused.    *)
C2_FillThenRefuse ==
    [][\A jobId \in JobIds \ DOMAIN jobs, metadata \in Metadata :
          (~shutdownRequested /\ AddJob(jobId, metadata, 0)) =>
              IF getActiveCount < maxConcurrent
              THEN /\ returned' = Accepted
                   /\ Cardinality(DOMAIN jobs') = getActiveCount + 1
              ELSE /\ returned' = Refused
                   /\ Cardinality(DOMAIN jobs') = maxConcurrent]_vars

(* N = 2 jobs with distinct ids were admitted, none has finished an        *)
(* attempt, and the next call was refused                                  *)
C2_Witness ==
    /\ maxConcurrent = 2
    /\ ~shutdownRequested
    /\ ~collided
    /\ getActiveCount = 2
    /\ BagCardinality(exec) = 2
    /\ \A e \in Execs : e.pc = "running" /\ e.hist = <<>>
    /\ returned = Refused

(* C3: once requestShutdown() has been called no addJob call is accepted:  *)
(* no later step returns accepted=true, starts an execution or adds a      *)
(* registry entry, whatever the id and also when the registry is empty.    *)
C3_NoAdmissionAfterShutdown ==
    [][shutdownRequested =>
          /\ (returned' # returned => returned' = Refused)
          /\ BagCardinality(exec') <= BagCardinality(exec)
          /\ DOMAIN jobs' \subseteq DOMAIN jobs]_vars

(* shutdown was requested, the registry is empty and the latest addJob     *)
(* call was refused although every slot is free                            *)
C3_Witness ==
    /\ shutdownRequested
    /\ getActiveCount = 0
    /\ exec = EmptyBag
    /\ returned = Refused

(* C4: a registry entry never outlives the executions admitted under its   *)
(* id: when the promise chain of an admitted job has run to its end -      *)
(* after success, a non-retryable failure, exhausted declared maxRetries   *)
(* or the exhausted global cap - the entry is gone.                        *)
C4_RemovedOnEveryExit ==
    \A jobId \in DOMAIN jobs : \E e \in Execs : e.jobId = jobId

(* the latest call was accepted, and every execution has ended and has     *)
(* taken its entry with it                                                 *)
C4_Witness ==
    /\ returned = Accepted
    /\ exec = EmptyBag
    /\ jobs = <<>>

(* C5: as long as ids are not reused while held, an id is registered       *)
(* exactly while an execution admitted under it has not ended: through     *)
(* every attempt and backoff, not before admission and not afterwards.     *)
C5_RegisteredWhileExecuting ==
    ~collided =>
        \A jobId \in JobIds :
            jobId \in DOMAIN jobs <=> \E e \in Execs : e.jobId = jobId

(* one job is registered during its second backoff wait while another id   *)
(* is absent                                                               *)
C5_Witness ==
    /\ ~collided
    /\ \E e \in Execs :
          /\ e.pc = "backoff"
          /\ e.retryCount = 2
          /\ e.jobId \in DOMAIN jobs
    /\ \E jobId \in JobIds : jobId \notin DOMAIN jobs

(* C6: an addJob call that returns accepted=false changes neither the      *)
(* registry, the shutdown flag nor maxConcurrent, and starts or advances   *)
(* no execution (the task is not invoked).                                 *)
C6_RefusalHasNoEffect ==
    [][(returned' # returned /\ returned' = Refused) =>
          UNCHANGED <<jobs, shutdownRequested, maxConcurrent, exec>>]_vars

(* a call was refused for capacity while a job is running                  *)
C6_Witness ==
    /\ returned = Refused
    /\ ~shutdownRequested
    /\ isFull
    /\ \E e \in Execs : e.pc = "running" /\ e.invocations = 2

(* C7: a failure marked retryable=false ends the executor at once: it is  *)
(* the last invocation, no sleep follows it and the executor has thrown,   *)
(* whatever maxRetries it declares and whatever retryCount has been used;  *)
(* so a task whose first failure is non-retryable is invoked exactly once. *)
C7_NonRetryableOnce ==
    \A e \in Execs : \A i \in 1..Len(e.hist) :
        (e.hist[i].kind = "error" /\ e.hist[i].known /\ ~e.hist[i].retryable) =>
            /\ i = Len(e.hist)
            /\ e.pc = "rejected"
            /\ e.invocations = i
            /\ Len(e.waits) = i - 1

(* the first failure was non-retryable with budget left (maxRetries 3,     *)
(* retryCount 0): one invocation, no wait, thrown                          *)
C7_Witness ==
    \E e \in Execs :
        /\ e.hist = <<NonRetryable(3)>>
        /\ e.initRetry = 0
        /\ e.pc = "rejected"
        /\ e.invocations = 1
        /\ e.waits = <<>>

(* C8: under addJob's default retryCount 0, a task that fails every time   *)
(* with retryable=true and maxRetries = m >= 1 is never invoked more than  *)
(* min(m, 3) times, and has been invoked exactly min(m, 3) times when the  *)
(* executor throws.                                                        *)
C8_DeclaredBudget ==
    \A e \in Execs : \A m \in DeclaredMaxRetries :
        (m >= 1 /\ e.initRetry = 0 /\ AllOf(e.hist, Retryable(m))) =>
            /\ e.invocations <= Min(m, GlobalCap)
            /\ e.pc = "rejected" => e.invocations = Min(m, GlobalCap)

(* maxRetries 4 against the global cap of 3: thrown after 3 invocations    *)
C8_Witness ==
    \E e \in Execs :
        /\ e.initRetry = 0
        /\ e.hist = <<Retryable(4), Retryable(4), Retryable(4)>>
        /\ e.pc = "rejected"
        /\ e.invocations = 3

(* C9: under addJob's default retryCount 0, a task that fails every time   *)
(* with an unclassified error is invoked exactly 3 times; the executor     *)
(* sleeps 1 x 30000 ms before the second invocation and 2 x 30000 ms       *)
(* before the third.                                                       *)
C9_UnclassifiedThrice ==
    \A e \in Execs :
        (e.initRetry = 0 /\ AllOf(e.hist, Unclassified)) =>
            /\ e.invocations <= 3
            /\ e.pc = "rejected" => e.invocations = 3
            /\ e.invocations >= 2 => e.waits[1] = 1 * BackoffUnitMs
            /\ e.invocations >= 3 => e.waits[2] = 2 * BackoffUnitMs
            /\ e.pc = "running" => Len(e.waits) = e.invocations - 1

(* the third invocation is pending after waits of 30000 and 60000 ms       *)
C9_Witness ==
    \E e \in Execs :
        /\ e.initRetry = 0
        /\ e.hist = <<Unclassified, Unclassified>>
        /\ e.pc = "running"
        /\ e.invocations = 3
        /\ e.waits = <<30000, 60000>>

(* C10: a backoff wait is only taken before a next attempt: an execution   *)
(* is never asleep once its attempt counter has reached the global cap.    *)
C10_NoWaitAtCap ==
    \A e \in Execs :
        (e.initRetry = 0 /\ e.pc = "backoff") => e.retryCount < GlobalCap

(* C11: a successful invocation ends the executor at once: it is the last  *)
(* invocation, the executor has resolved and no sleep follows it, on the   *)
(* first attempt as on any retry.                                          *)
C11_SuccessEndsExecutor ==
    \A e \in Execs : \A i \in 1..Len(e.hist) :
        e.hist[i].kind = "ok" =>
            /\ i = Len(e.hist)
            /\ e.pc = "resolved"
            /\ e.invocations = i
            /\ Len(e.waits) = i - 1

(* the task failed twice and then succeeded: three invocations, two waits, *)
(* resolved                                                                *)
C11_Witness ==
    \E e \in Execs :
        /\ e.hist = <<Unclassified, Retryable(4), Ok>>
        /\ e.pc = "resolved"
        /\ e.invocations = 3
        /\ Len(e.waits) = 2

(* C12: a waitForCompletion() call resolves in the call itself exactly     *)
(* when the registry is empty at the call, and whenever its promise        *)
(* becomes resolved the registry is empty at that moment.                  *)
C12_ResolvesOnlyWhenEmpty ==
    [][/\ (waiter.pc = "idle" /\ waiter'.pc # "idle") =>
              (waiter'.pc = "resolved" <=> getActiveCount = 0)
       /\ (waiter.pc # "resolved" /\ waiter'.pc = "resolved") =>
              (getActiveCount = 0 /\ jobs' = <<>>)]_vars

(* the call is pending while a registered job sits in a backoff wait       *)
C12_Witness ==
    /\ waiter.pc = "polling"
    /\ getActiveCount > 0
    /\ \E e \in Execs : e.pc = "backoff" /\ e.jobId \in DOMAIN jobs

(* C13: when waitForCompletion() is called after requestShutdown(), no     *)
(* addJob is accepted from then on, and once the drain has resolved        *)
(* getActiveCount is 0 in that and every later state.                      *)
C13_ShutdownThenDrain ==
    [][/\ (waiter.pc # "idle" /\ waiter.afterShutdown) =>
              /\ shutdownRequested /\ shutdownRequested'
              /\ returned' # returned => returned' = Refused
              /\ BagCardinality(exec') <= BagCardinality(exec)
       /\ (waiter'.pc = "resolved" /\ waiter'.afterShutdown) =>
              Cardinality(DOMAIN jobs') = 0]_vars

(* the drain began after the flag was set, has resolved, and a later       *)
(* addJob on the empty registry was refused                                *)
C13_Witness ==
    /\ waiter = [pc |-> "resolved", afterShutdown |-> TRUE]
    /\ shutdownRequested
    /\ getActiveCount = 0
    /\ returned = Refused

(* C14: after requestShutdown(), if every task invocation settles and the  *)
(* timers fire, a pending waitForCompletion() eventually resolves.         *)
C14_DrainResolves ==
    (shutdownRequested /\ waiter.pc = "polling") ~> (waiter.pc = "resolved")

(* shutdown is requested and the drain is pending on a job that is still   *)
(* retrying                                                                *)
C14_Witness ==
    /\ shutdownRequested
    /\ waiter = [pc |-> "polling", afterShutdown |-> TRUE]
    /\ \E e \in Execs : e.pc = "running" /\ e.invocations = 3

(* C15: the shutdown flag starts false, only a requestShutdown() step      *)
(* changes it, and no step takes it from true to false.                    *)
C15_FlagMonotonic ==
    /\ ~shutdownRequested
    /\ [][/\ shutdownRequested => shutdownRequested'
          /\ shutdownRequested' # shutdownRequested =>
                 UNCHANGED <<jobs, maxConcurrent, returned, exec, collided, waiter>>]_vars

(* the flag is still set after a refused addJob, the end of every job and  *)
(* a resolved waitForCompletion()                                          *)
C15_Witness ==
    /\ shutdownRequested
    /\ returned = Refused
    /\ exec = EmptyBag
    /\ waiter.pc = "resolved"
    /\ ~waiter.afterShutdown

(* C16: a requestShutdown() step changes nothing but the flag, and with    *)
(* the flag set the executor still only throws for the reasons it has      *)
(* without it: a non-retryable failure, consumed tries, or the global cap  *)
(* after its sleep; admitted jobs keep retrying.                           *)
C16_ShutdownLeavesJobsAlone ==
    [][/\ shutdownRequested' # shutdownRequested =>
              UNCHANGED <<jobs, exec, maxConcurrent, returned, waiter>>
       /\ shutdownRequested' =>
              \A e \in BagToSet(exec') :
                  e.pc = "rejected" =>
                      LET last == e.hist[Len(e.hist)] IN
                          \/ last.known /\ ~last.retryable
                          \/ last.known /\ last.retryable
                                /\ e.initRetry + Len(e.hist) >= last.maxRetries
                          \/ e.retryCount >= GlobalCap]_vars

(* with the flag set and a call refused on a registry that is not full, a  *)
(* registered job is in its second backoff wait                            *)
C16_Witness ==
    /\ shutdownRequested
    /\ returned = Refused
    /\ ~isFull
    /\ \E e \in Execs :
          e.pc = "backoff" /\ e.retryCount = 2 /\ e.jobId \in DOMAIN jobs

(* C17: the value addJob returns is fixed by the registry size and the     *)
(* flag at the call: it only changes in a step that is an addJob call      *)
(* (nothing else moves, or one execution starts), it is accepted=false     *)
(* exactly when the registry is full or the flag is set, and no step of an *)
(* execution - a failure, a throw, the end of the chain - changes it.      *)
C17_ResultFixedAtCall ==
    [][/\ returned' # returned =>
              /\ \/ exec' = exec /\ jobs' = jobs
                 \/ BagCardinality(exec') = BagCardinality(exec) + 1
              /\ returned' = Refused <=>
                     (getActiveCount >= maxConcurrent \/ shutdownRequested)
       /\ (exec' # exec /\ BagCardinality(exec') <= BagCardinality(exec)) =>
              returned' = returned]_vars

(* the executor of the accepted job has thrown a non-retryable failure and *)
(* the result is still accepted=true                                       *)
C17_Witness ==
    /\ returned = Accepted
    /\ \E e \in Execs : e.pc = "rejected" /\ e.hist = <<NonRetryable(0)>>

(* C18: as long as ids are not reused while held, the end of one job       *)
(* lowers getActiveCount by exactly one, an accepted addJob raises it by   *)
(* one, and a refused addJob and every other step leave it unchanged.      *)
C18_OneSlotPerJob ==
    [][~collided' =>
          Cardinality(DOMAIN jobs') - getActiveCount =
              BagCardinality(exec') - BagCardinality(exec)]_vars

(* maxConcurrent is 2: a call was refused on the full registry, then one   *)
(* job ended and exactly one slot is free                                  *)
C18_Witness ==
    /\ maxConcurrent = 2
    /\ ~collided
    /\ ~shutdownRequested
    /\ returned = Refused
    /\ getActiveCount = 1
    /\ BagCardinality(exec) = 1

(* C19: a registry entry or an execution only comes into being in a step   *)
(* that is an accepted addJob call on a registry with a free slot and no   *)
(* flag, and it is the one job of that call; the end of a job never starts *)
(* the job of an earlier refused call.                                     *)
C19_NoQueue ==
    [][(~(DOMAIN jobs' \subseteq DOMAIN jobs)
            \/ BagCardinality(exec') > BagCardinality(exec)) =>
          /\ returned' = Accepted
          /\ getActiveCount < maxConcurrent /\ ~shutdownRequested
          /\ \E jobId \in JobIds :
                /\ exec' = exec (+) SetToBag({NewExec(jobId, 0)})
                /\ DOMAIN jobs' = DOMAIN jobs \cup {jobId}]_vars

(* maxConcurrent is 1: a call was refused, the job has ended since, and    *)
(* the free store holds no entry and runs no task                          *)
C19_Witness ==
    /\ maxConcurrent = 1
    /\ ~shutdownRequested
    /\ returned = Refused
    /\ jobs = <<>>
    /\ exec = EmptyBag

(* C20: a poll none of whose callbacks has reported ready stays pending    *)
(* up to its timeout, resolves at the timeout through the timeout callback *)
(* - with false at the lobby wait, whose promise carries the outcome - and *)
(* once it is resolved its interval is cleared and no callback is started. *)
C20_TimeoutEndsPoll ==
    ~poll.everReady =>
        /\ poll.pc = "pending" => poll.now <= poll.timeoutMs
        /\ poll.pc = "resolved" =>
              /\ poll.by = "timeout"
              /\ poll.resolvedAt = poll.timeoutMs
              /\ poll.site = "lobby" => poll.value = "false"
              /\ ~poll.intervalArmed
        /\ poll.startedAfter = 0

(* the lobby wait has resolved false at its timeout after two callbacks,   *)
(* one of them still awaiting the page                                     *)
C20_Witness ==
    /\ poll.site = "lobby"
    /\ poll.pc = "resolved"
    /\ poll.value = "false"
    /\ ~poll.everReady
    /\ poll.started = 2
    /\ poll.inflight # {}

(* C21 as stated: when the first callback to report ready is the k-th and  *)
(* its tick lies before the timeout, the poll has resolved true through    *)
(* that callback, not later than the timeout, and has started no callback  *)
(* since.                                                                  *)
C21_ReadyResolvesTrue ==
    (poll.firstReady # 0 /\ poll.firstReady * poll.intervalMs < poll.timeoutMs) =>
        /\ poll.pc = "resolved"
        /\ poll.by = "check"
        /\ poll.site = "lobby" => poll.value = "true"
        /\ poll.resolvedAt <= poll.timeoutMs
        /\ poll.startedAfter = 0

(* C21 amended: the first callback to report ready, the k-th, reports at   *)
(* or after its tick.  If the poll is pending then, it resolves true at    *)
(* that moment, not later than the timeout; otherwise the timeout fired    *)
(* while the callback awaited the page and the poll stays resolved false.  *)
(* Either way both timers are cleared and no callback is started after the *)
(* resolution.                                                             *)
C21_ReadyResolvesOnReport ==
    poll.firstReady # 0 =>
        /\ poll.pc = "resolved"
        /\ ~poll.intervalArmed /\ ~poll.timeoutArmed
        /\ poll.startedAfter = 0
        /\ poll.readyAt >= poll.firstReady * poll.intervalMs
        /\ IF poll.by = "check"
           THEN /\ poll.resolvedAt = poll.readyAt
                /\ poll.resolvedAt <= poll.timeoutMs
                /\ poll.site = "lobby" => poll.value = "true"
           ELSE /\ poll.by = "timeout"
                /\ poll.resolvedAt = poll.timeoutMs
                /\ poll.readyAt >= poll.timeoutMs
                /\ poll.site = "lobby" => poll.value = "false"

(* the lobby wait resolved true through its second callback, before the    *)
(* timeout                                                                 *)
C21_Witness ==
    /\ poll.site = "lobby"
    /\ poll.by = "check"
    /\ poll.value = "true"
    /\ poll.firstReady = 2
    /\ poll.resolvedAt < poll.timeoutMs

(* C22: a resolved poll was decided by exactly one of the timeout callback *)
(* and an interval callback, with that one's value (false and true at the  *)
(* lobby wait); neither timer is scheduled any more; and no later step -   *)
(* in particular no callback that was in flight and reports ready - moves  *)
(* the outcome, the decider or the time of the resolution.                 *)
C22_OneDecider ==
    /\ [](poll.pc = "resolved" =>
            /\ poll.by \in {"timeout", "check"}
            /\ ~poll.timeoutArmed /\ ~poll.intervalArmed
            /\ poll.site = "lobby" =>
                  poll.value = (IF poll.by = "timeout" THEN "false" ELSE "true"))
    /\ [][poll.pc = "resolved" =>
            /\ poll'.pc = "resolved"
            /\ poll'.value = poll.value
            /\ poll'.by = poll.by
            /\ poll'.resolvedAt = poll.resolvedAt]_vars

(* the lobby wait resolved false by its timeout and a callback in flight   *)
(* at that time has reported ready since                                   *)
C22_Witness ==
    /\ poll.site = "lobby"
    /\ poll.by = "timeout"
    /\ poll.value = "false"
    /\ poll.everReady

(* C23: a step in which a callback raises leaves the promise, its outcome  *)
(* and both timers as they were; the promise is only ever idle, pending or *)
(* resolved; and while it is pending the interval and the timeout stay     *)
(* armed, so later ticks go on starting callbacks.                         *)
C23_RaiseSwallowed ==
    /\ [](poll.pc \in {"idle", "pending", "resolved"})
    /\ [](poll.pc = "pending" => poll.timeoutArmed /\ poll.intervalArmed)
    /\ [][poll'.raised # poll.raised =>
            /\ poll'.pc = poll.pc
            /\ poll'.value = poll.value
            /\ poll'.by = poll.by
            /\ poll'.timeoutArmed = poll.timeoutArmed
            /\ poll'.intervalArmed = poll.intervalArmed
            /\ poll'.nextTick = poll.nextTick]_vars

(* at the notification site a click threw after buttons were found, the   *)
(* poll is still pending and a later tick has started the next callback    *)
C23_Witness ==
    /\ poll.pc = "pending"
    /\ \E i \in poll.raised : poll.started > i
    /\ poll.site = "notify"
    /\ poll.foundAny

(* C24: the k-th callback is started no earlier than k intervals after the *)
(* poll was created, so none runs at creation, and while the interval is   *)
(* armed exactly one callback has been started for every tick that has     *)
(* fired: the next tick is the (started + 1)-th and the clock has not      *)
(* passed it.                                                              *)
C24_OneCheckPerTick ==
    /\ poll.started * poll.intervalMs <= poll.now
    /\ Cardinality(poll.inflight) <= poll.started
    /\ poll.intervalArmed =>
          /\ poll.nextTick = (poll.started + 1) * poll.intervalMs
          /\ poll.now <= poll.nextTick

(* the lobby wait is pending at its second tick with both callbacks begun  *)
C24_Witness ==
    /\ poll.site = "lobby"
    /\ poll.pc = "pending"
    /\ poll.started = 2
    /\ poll.now = 2 * poll.intervalMs

(* C26: a step that starts an execution under an id that is registered is *)
(* an accepted addJob on a store with a free slot and no shutdown flag; it *)
(* leaves the set of registered ids as it was and every running execution *)
(* untouched, and adds the one new execution.  A step that ends an         *)
(* execution removes the entry of its id, whether or not another           *)
(* execution runs under that id.                                           *)
C26_DuplicateOverwrites ==
    [][/\ \A jobId \in DOMAIN jobs :
            CopiesIn(NewExec(jobId, 0), exec') > CopiesIn(NewExec(jobId, 0), exec) =>
                /\ returned' = Accepted
                /\ getActiveCount < maxConcurrent /\ ~shutdownRequested
                /\ DOMAIN jobs' = DOMAIN jobs
                /\ exec' = exec (+) SetToBag({NewExec(jobId, 0)})
       /\ \A e \in Execs :
            exec' = exec (-) SetToBag({e}) => e.jobId \notin DOMAIN jobs']_vars

(* an id was added twice, the first of the two executions has ended, and   *)
(* the other still runs its task with no entry in the registry             *)
C26_Witness ==
    /\ collided
    /\ jobs = <<>>
    /\ \E e \in Execs : e.pc = "running"

(* C27: the executions that have not reached a terminal outcome are never *)
(* more than maxConcurrent, whatever ids the addJob calls used.            *)
C27_ExecutionsWithinCapacity == UnfinishedCount <= maxConcurrent

(* C28: once a waitForCompletion() called after requestShutdown() has      *)
(* resolved, no execution is running an attempt or waiting in a backoff.   *)
C28_DrainWaitsForAll ==
    (waiter.pc = "resolved" /\ waiter.afterShutdown) => Unfinished = {}

(* C25: the array getActiveJobs() returns holds every registered job once; *)
(* a step in which the caller changes that array (push, pop, replacing an  *)
(* element) leaves the registry and getActiveCount() as they were; and a   *)
(* step that changes the registry leaves an array returned earlier as it   *)
(* was.                                                                    *)
C25_SnapshotCopy ==
    [][/\ (snapshot'.held /\ snapshot'.edits = 0 /\ snapshot' # snapshot) =>
            /\ Len(snapshot'.items) = getActiveCount
            /\ {snapshot'.items[i] : i \in DOMAIN snapshot'.items} = {jobs[k] : k \in DOMAIN jobs}
            /\ jobs' = jobs
       /\ snapshot'.edits # snapshot.edits /\ snapshot'.edits > 0 =>
            /\ jobs' = jobs
            /\ Cardinality(DOMAIN jobs') = getActiveCount
       /\ jobs' # jobs => snapshot' = snapshot]_vars

(* the caller has changed its array, the registry has changed since it was *)
(* returned, and the two differ                                            *)
C25_Witness ==
    /\ snapshot.held
    /\ snapshot.edits > 0
    /\ jobs # <<>>
    /\ \E i \in DOMAIN snapshot.items : snapshot.items[i].jobId \notin DOMAIN jobs \cup {"Z"}
    /\ \E k \in DOMAIN jobs : \A i \in DOMAIN snapshot.items : snapshot.items[i].jobId # k

(* C29: under addJob's default retryCount 0 and for every sequence of      *)
(* outcomes, attempt k ends the invocations exactly when it succeeds, or   *)
(* fails non-retryable, or fails retryable with k >= maxRetries, or k = 3: *)
(* every attempt before the last recorded one was none of these, a further *)
(* invocation is pending only after such an attempt, an executor that has  *)
(* returned or thrown did so on such an attempt, the task is invoked at    *)
(* most 3 times, and the error thrown is the one of the last attempt.      *)
C29_StopsAtFirstDecisive ==
    \A e \in Execs : e.initRetry = 0 =>
        LET n == Len(e.hist)
            Stops(k) ==
                \/ e.hist[k].kind = "ok"
                \/ e.hist[k].known /\ ~e.hist[k].retryable
                \/ e.hist[k].known /\ e.hist[k].retryable /\ k >= e.hist[k].maxRetries
                \/ k >= 3
        IN  /\ e.invocations <= 3
            /\ \A k \in 1..(n - 1) : ~Stops(k)
            /\ e.pc = "running" => e.invocations = n + 1 /\ (n >= 1 => ~Stops(n))
            /\ e.pc # "running" => e.invocations = n
            /\ e.pc \in {"resolved", "rejected"} => Stops(n)
            /\ e.pc = "resolved" => e.hist[n].kind = "ok" /\ e.thrown = <<>>
            /\ e.pc = "rejected" => e.hist[n].kind = "error" /\ e.thrown = <<e.hist[n]>>
            /\ e.pc \in {"running", "backoff"} => e.thrown = <<>>

(* an unclassified failure, then a retryable one whose budget of 4 is not  *)
(* used up, then a retryable one whose budget of 3 is: thrown at the third *)
C29_Witness ==
    \E e \in Execs :
        /\ e.initRetry = 0
        /\ e.hist = <<Unclassified, Retryable(4), Retryable(3)>>
        /\ e.pc = "rejected"
        /\ e.thrown = <<Retryable(3)>>
        /\ e.waits = <<SleepMs(1), SleepMs(2)>>

(* C30: an execution whose first attempt fails retryable with a declared   *)
(* maxRetries of 1, 0 or less has thrown that failure after this one       *)
(* invocation, with no backoff wait, for every retryCount given to addJob. *)
C30_SmallBudgetOnce ==
    \A e \in Execs :
        (/\ e.hist # <<>>
         /\ e.hist[1].kind = "error" /\ e.hist[1].known /\ e.hist[1].retryable
         /\ e.hist[1].maxRetries <= 1) =>
            /\ e.pc = "rejected"
            /\ e.invocations = 1
            /\ e.hist = <<e.hist[1]>>
            /\ e.waits = <<>>
            /\ e.thrown = <<e.hist[1]>>

(* a retryable failure that declares maxRetries = -1, thrown at once *)
C30_Witness ==
    \E e \in Execs :
        /\ e.initRetry = 0
        /\ e.hist = <<Retryable(-1)>>
        /\ e.pc = "rejected"
        /\ e.waits = <<>>

(* C31: for a job added with retryCount r whose task has failed every time *)
(* with an unclassified error, the task is invoked at most max(1, 3 - r)   *)
(* times and exactly that often once the executor has thrown, and the wait *)
(* after the k-th failure is (r + k) x 30000 ms.                           *)
C31_InitialRetryCount ==
    \A e \in Execs :
        AllOf(e.hist, Unclassified) =>
            LET r == e.initRetry
                budget == IF 3 - r > 1 THEN 3 - r ELSE 1
            IN  /\ e.invocations <= budget
                /\ e.pc = "rejected" =>
                      /\ e.invocations = budget
                      /\ Len(e.waits) = budget
                /\ \A k \in 1..Len(e.waits) : e.waits[k] = (r + k) * 30000

(* added with retryCount 1: two invocations, waits of 60 s and 90 s, thrown *)
C31_Witness ==
    \E e \in Execs :
        /\ e.initRetry = 1
        /\ e.hist = <<Unclassified, Unclassified>>
        /\ e.pc = "rejected"
        /\ e.invocations = 2
        /\ e.waits = <<60000, 90000>>

(* C32: an execution whose task invocation has not settled keeps its job   *)
(* in the registry, and a waitForCompletion() that is polling does not     *)
(* resolve while some invocation is still pending.                         *)
C32_PendingStaysRegistered ==
    /\ [](\A e \in Execs : e.pc = "running" => e.jobId \in DOMAIN jobs)
    /\ [][(waiter.pc = "polling" /\ waiter'.pc = "resolved") =>
              \A e \in Execs : e.pc # "running"]_vars

(* C33: a step of waitForCompletion() or of its checkCompletion timer      *)
(* leaves the registry, the shutdown flag, the capacity, the executions    *)
(* and the latest addJob result as they were; and while a wait is polling  *)
(* and no shutdown was requested, an addJob call is accepted exactly when  *)
(* fewer than maxConcurrent jobs are registered, and leaves the wait alone.*)
C33_WaitIsTransparent ==
    [][/\ waiter' # waiter =>
            UNCHANGED <<jobs, shutdownRequested, maxConcurrent, exec, returned>>
       /\ \A jobId \in JobIds, metadata \in Metadata :
            (waiter.pc = "polling" /\ ~shutdownRequested /\ AddJob(jobId, metadata, 0)) =>
                /\ returned' = IF getActiveCount < maxConcurrent
                               THEN Accepted ELSE Refused
                /\ waiter' = waiter]_vars

(* a wait is polling, no shutdown was requested, and the latest addJob     *)
(* call was accepted and filled the registry to its capacity of two        *)
C33_Witness ==
    /\ waiter.pc = "polling"
    /\ ~waiter.afterShutdown
    /\ ~shutdownRequested
    /\ maxConcurrent = 2
    /\ getActiveCount = 2
    /\ returned = Accepted

(* C34: an execution whose first invocation failed with the lobby failure  *)
(* of ZoomBot or MicrosoftTeamsBot (retryable = false, maxRetries = 0) has *)
(* thrown that failure after exactly one invocation and no backoff wait;   *)
(* and the step that ends its promise chain leaves no entry under its id.  *)
C34_LobbyFailureNotRetried ==
    /\ [](\A e \in Execs :
            (e.hist # <<>> /\ e.hist[1] \in LobbyFailures) =>
                /\ e.pc = "rejected"
                /\ e.invocations = 1
                /\ e.hist = <<e.hist[1]>>
                /\ e.waits = <<>>
                /\ e.thrown = <<e.hist[1]>>)
    /\ [][\A e \in Execs :
            (/\ e.hist # <<>>
             /\ e.hist[1] \in LobbyFailures
             /\ exec' = exec (-) SetToBag({e})) => e.jobId \notin DOMAIN jobs']_vars

(* the only job of the store failed at the lobby: invoked once, thrown, no *)
(* wait, its chain not yet at .finally                                     *)
C34_Witness ==
    /\ BagCardinality(exec) = 1
    /\ \E e \in Execs :
        /\ e.hist = <<ZoomLobbyFailure>>
        /\ e.pc = "rejected"
        /\ e.invocations = 1
        /\ e.waits = <<>>
        /\ e.jobId \in DOMAIN jobs

(* C35: once the recording wait of MicrosoftTeamsBot has ended, the        *)
(* delayed start timer and the silence-check interval are no longer        *)
(* scheduled and no audio-level check has been started since.              *)
C35_NoDanglingTimers ==
    silence.pc = "ended" =>
        /\ ~silence.startArmed
        /\ ~silence.intervalArmed
        /\ ~silence.late

(* C36 as stated: the counter is the number of silent checks completed     *)
(* since the last loud one, checks that threw left out; the monitor has    *)
(* ended the meeting only when that number had reached checksNeeded; and   *)
(* the counter never exceeds checksNeeded.                                 *)
C36_SilenceCounterCapped ==
    /\ silence.count = SilentRun(silence.hist)
    /\ silence.bySilence =>
           SilentRun(SubSeq(silence.hist, 1, silence.reachedAt)) >= silence.checksNeeded
    /\ silence.count <= silence.checksNeeded

(* C36, amended: as above, but the counter stays below checksNeeded only   *)
(* while checkInterval is scheduled; it exceeds checksNeeded only after    *)
(* the monitor has ended the meeting, and by no more than the checks that  *)
(* completed after that.                                                   *)
C36_SilenceCounter ==
    /\ silence.count = SilentRun(silence.hist)
    /\ silence.bySilence =>
           SilentRun(SubSeq(silence.hist, 1, silence.reachedAt)) >= silence.checksNeeded
    /\ silence.intervalArmed => silence.count < silence.checksNeeded
    /\ silence.count > silence.checksNeeded =>
           /\ silence.bySilence
           /\ silence.count - silence.checksNeeded
                  <= Len(silence.hist) - silence.reachedAt

(* two checks were needed; a silent check, one that threw and one with no  *)
(* output ended the meeting                                                *)
C36_Witness ==
    /\ silence.checksNeeded = 2
    /\ silence.bySilence
    /\ silence.meetingEnded
    /\ silence.count = 2
    /\ silence.hist = <<[kind |-> "stdout", peak |-> 199],
                        [kind |-> "throws", peak |-> 0],
                        [kind |-> "empty", peak |-> 0]>>

(* C37: the landing-page wait behaves as awaitCondition(check, 1500,       *)
(* timeoutMs) for one timeoutMs: when no check reports ready it gives up   *)
(* after the same number of check invocations, however long the checks     *)
(* take.                                                                   *)
C37_SitesShareContract ==
    (nav.pc = "resolved" /\ nav.value = "false") => nav.started = maxAttempts

C39_StatusListWellFormed ==
    join.pc \in {"returned", "threw"} =>
        /\ join.reports # <<>>
        /\ LET status == join.reports[Len(join.reports)].status
           IN  /\ status[1] = "processing"
               /\ Cardinality({i \in DOMAIN status : status[i] = "failed"}) <= 1
               /\ ~(Includes(status, "finished") /\ Includes(status, "failed"))
               /\ join.pc = "threw" => Includes(status, "failed")

====
